---- MODULE Spec2Model ----
(***************************************************************************)
(* Stealth detection core of drone-recon-ops: LineOfSightCalculator and    *)
(* DetectionSystem (docs/IMPLEMENTATION_GUIDE.md, System 2), and the game  *)
(* scene's DroneManager and InteractionManager (src/systems).              *)
(*                                                                         *)
(* The specifications share the variables: Spec drives the                 *)
(* DetectionSystem, SpecLOS the calculator alone, SpecScene the game       *)
(* scene, SpecDrone the Drone entity of the guide, and SpecEnemy,          *)
(* SpecGlobalState, SpecObjective, SpecGame, SpecStealth and SpecGdDrone   *)
(* one script of the Godot project each; each leaves the other components  *)
(* in their constructed state.                                             *)
(*                                                                         *)
(* Numbers.  Detection strengths are the reals of [0,1]; they are kept     *)
(* here in thousandths (0..1000).  All ranges of the detector catalogue    *)
(* divide 1000 and all detector-target distances of the position sets are  *)
(* whole numbers, so 1 - distance/range is represented exactly.  Times are *)
(* milliseconds, as in the source.  Angles are kept in millionths of the   *)
(* unit the source computes them in.                                       *)
(***************************************************************************)
EXTENDS Integers, Sequences, FiniteSets, Bags, TLC

VARIABLES
    detectors,              \* Map<string, IDetector>, in insertion order
    audioZones,             \* AudioZone[]
    obstacles,              \* LineOfSightCalculator.obstacles (their bounds)
    currentDetectionLevel,  \* DetectionLevel
    alertTimer,             \* ms
    emitted,                \* 'detection:stateChanged' events of the last call
    results,                \* DetectionResult[] returned by the last checkDetection
    lastCall,               \* the last call made on the system
    scenario,               \* bookkeeping of the time since a detection spike
    query,                  \* the direct calculateVisibility call just made, if any
    drones,                 \* DroneManager.drones: [drone1, drone2]
    activeDrone,            \* DroneManager.activeDrone, as an index into drones
    terminals,              \* the Terminal objects of the scene, by name
    interactables,          \* InteractionManager.interactables
    lastFrame,              \* what the last GameScene.update did with the E key
    tsDrone,                \* the Drone entity of the Phaser prototype
    enemy,                  \* a Godot Enemy (enemy.gd)
    globalState,            \* the GlobalGameState autoload
    objective,              \* a Godot MissionObjective (mission.gd)
    game,                   \* the Godot GameManager (game_manager.gd)
    stealth,                \* the Godot StealthSystem (drone_sprite.gd)
    gdDrone                 \* the Godot Drone (camera_controller.gd)

vars == <<detectors, audioZones, obstacles, currentDetectionLevel, alertTimer,
          emitted, results, lastCall, scenario, query,
          drones, activeDrone, terminals, interactables, lastFrame,
          tsDrone, enemy, globalState, objective, game, stealth, gdDrone>>

\* the game scene: its drones, its managers and its interactables
sceneVars == <<drones, activeDrone, terminals, interactables, lastFrame>>

\* the fields of the DetectionSystem proper (obstacles belongs to its calculator)
detectionVars == <<detectors, audioZones, currentDetectionLevel, alertTimer,
                   emitted, results, lastCall, scenario>>

\* the components modelled on their own, one variable each
standaloneVars == <<tsDrone, enemy, globalState, objective, game, stealth, gdDrone>>

\* what no method of the DetectionSystem touches
otherSystems == <<query, sceneVars, standaloneVars>>

\* the detection system, its calculator and the game scene together
phaserVars == <<detectors, audioZones, obstacles, currentDetectionLevel,
                alertTimer, emitted, results, lastCall, scenario, query,
                drones, activeDrone, terminals, interactables, lastFrame>>

\* everything but one standalone component
besidesTsDrone == <<phaserVars, enemy, globalState, objective, game, stealth, gdDrone>>
besidesEnemy == <<phaserVars, tsDrone, globalState, objective, game, stealth, gdDrone>>
besidesGlobalState == <<phaserVars, tsDrone, enemy, objective, game, stealth, gdDrone>>
besidesObjective == <<phaserVars, tsDrone, enemy, globalState, game, stealth, gdDrone>>
besidesGame == <<phaserVars, tsDrone, enemy, globalState, objective, stealth, gdDrone>>
besidesStealth == <<phaserVars, tsDrone, enemy, globalState, objective, game, gdDrone>>
besidesGdDrone == <<phaserVars, tsDrone, enemy, globalState, objective, game, stealth>>

----------------------------------------------------------------------------
(* Program constants *)

ALERT_TIMEOUT == 30000
DISCOVERED_THRESHOLD == 800
ALERT_THRESHOLD == 500
CAUTION_THRESHOLD == 200
NOISE_REFERENCE_MAX == 10
FULL_CIRCLE == 360

SAFE == "safe"
CAUTION == "caution"
ALERT == "alert"
DISCOVERED == "discovered"
DetectionLevel == {SAFE, CAUTION, ALERT, DISCOVERED}

VISUAL == "visual"
AUDIO == "audio"
MOTION == "motion"

(* Fixed-point units *)
ONE == 1000
MICRO == 1000000
PI_MICRO == 3141593
HALF_PI_MICRO == 1570796

----------------------------------------------------------------------------
(* Bounds of the model *)

MaxDetectors == 2
MaxAudioZones == 1
MaxObstacles == 1

Pt(px, py) == [x |-> px, y |-> py]

DetectorIds == {"guard1", "guard2", "camera1"}

\* Seen from guard1 the targets give strengths 0.9, 0.6, 0.5 and 0.2: one in
\* each band of the thresholds 0.8 / 0.5 / 0.2.  guard2 sees them at 0.5, 0.8,
\* 0.5 and 0; the obstacle stands between guard1 and (4,0), guard2 and (1,0).
TargetPositions == {Pt(1, 0), Pt(4, 0), Pt(3, 4), Pt(0, 8)}
\* below the zone's sensitivity, equal to it, and above the reference maximum
NoiseLevels == {0, 3, 12}
\* half of ALERT_TIMEOUT, and just over it
DeltaTimes == {15000, 30100}

Det(i, p, r, fov, dir, act, ty) ==
    [id |-> i, position |-> p, range |-> r, fieldOfView |-> fov,
     direction |-> dir, isActive |-> act, detectorType |-> ty]

DetectorCatalog ==
    { Det("guard1", Pt(0, 0), 10, 90, 0, TRUE, VISUAL),
      Det("guard1", Pt(0, 0), 10, 90, 0, FALSE, VISUAL),
      Det("guard2", Pt(6, 0), 10, 360, 0, TRUE, VISUAL),
      Det("camera1", Pt(0, 0), 10, 360, 0, TRUE, MOTION) }

AudioZoneCatalog ==
    { [center |-> Pt(0, 0), radius |-> 5, sensitivity |-> 3] }

ObstacleCatalog ==
    { [x |-> 2, y |-> -1, width |-> 1, height |-> 2] }

----------------------------------------------------------------------------
(* Phaser geometry used by the calculator *)

Abs(n) == IF n < 0 THEN -n ELSE n
Min(a, b) == IF a <= b THEN a ELSE b
Max(a, b) == IF a >= b THEN a ELSE b

\* Math.sqrt: the root of n counted up from r; exact on the squares the
\* position sets produce
RECURSIVE SqrtFrom(_, _)
SqrtFrom(n, r) == IF (r + 1) * (r + 1) > n THEN r ELSE SqrtFrom(n, r + 1)

Sqrt(n) == SqrtFrom(n, 0)

\* Phaser.Math.Distance.Between
DistanceBetween(p, q) ==
    Sqrt((p.x - q.x) * (p.x - q.x) + (p.y - q.y) * (p.y - q.y))

\* Math.atan of a first-quadrant slope dy/dx (dx, dy > 0), in millionths of a radian
AtanMicro(dy, dx) ==
    CASE dy = dx -> 785398
      [] 3 * dy = 4 * dx -> 927295
      [] 4 * dy = 3 * dx -> 643501

\* Phaser.Math.Angle.Between: Math.atan2(y2 - y1, x2 - x1), radians in (-PI, PI]
AngleBetween(p, q) ==
    LET dx == q.x - p.x
        dy == q.y - p.y
    IN  CASE dy = 0 /\ dx >= 0 -> 0
          [] dy = 0 /\ dx < 0 -> PI_MICRO
          [] dx = 0 /\ dy > 0 -> HALF_PI_MICRO
          [] dx = 0 /\ dy < 0 -> -HALF_PI_MICRO
          [] dx > 0 /\ dy > 0 -> AtanMicro(dy, dx)
          [] dx > 0 /\ dy < 0 -> -AtanMicro(-dy, dx)
          [] dx < 0 /\ dy > 0 -> PI_MICRO - AtanMicro(dy, -dx)
          [] dx < 0 /\ dy < 0 -> AtanMicro(-dy, -dx) - PI_MICRO

\* Phaser.Math.Angle.ShortestBetween(angle1, angle2): both taken as degrees,
\* result in [-180, 180)
ShortestBetween(angle1, angle2) ==
    LET difference == angle2 - angle1
        times == (difference + 180 * MICRO) \div (FULL_CIRCLE * MICRO)
    IN  IF difference = 0 THEN 0 ELSE difference - times * FULL_CIRCLE * MICRO

\* t = a + (b - a) * num / den compared with a bound, without dividing:
\* TRUE iff lo <= t (or lo < t when strictLo) and t <= hi
EdgeHit(a, b, num, den, lo, hi, strictLo) ==
    LET s == IF den < 0 THEN -1 ELSE 1
        tn == s * (a * den + (b - a) * num)
        td == s * den
    IN  /\ IF strictLo THEN tn > lo * td ELSE tn >= lo * td
        /\ tn <= hi * td

\* Phaser.Geom.Intersects.LineToRectangle
LineToRectangle(from, to, rect) ==
    LET x1 == from.x
        y1 == from.y
        x2 == to.x
        y2 == to.y
        bx1 == rect.x
        by1 == rect.y
        bx2 == rect.x + rect.width
        by2 == rect.y + rect.height
    IN  \/ x1 >= bx1 /\ x1 <= bx2 /\ y1 >= by1 /\ y1 <= by2
        \/ x2 >= bx1 /\ x2 <= bx2 /\ y2 >= by1 /\ y2 <= by2
        \/ x1 < bx1 /\ x2 >= bx1
             /\ EdgeHit(y1, y2, bx1 - x1, x2 - x1, by1, by2, TRUE)
        \/ ~(x1 < bx1 /\ x2 >= bx1) /\ x1 > bx2 /\ x2 <= bx2
             /\ EdgeHit(y1, y2, bx2 - x1, x2 - x1, by1, by2, FALSE)
        \/ y1 < by1 /\ y2 >= by1
             /\ EdgeHit(x1, x2, by1 - y1, y2 - y1, bx1, bx2, FALSE)
        \/ ~(y1 < by1 /\ y2 >= by1) /\ y1 > by2 /\ y2 <= by2
             /\ EdgeHit(x1, x2, by2 - y1, y2 - y1, bx1, bx2, FALSE)

----------------------------------------------------------------------------
(* LineOfSightCalculator *)

hasLineOfSight(obs, from, to) ==
    \A k \in 1..Len(obs) : ~LineToRectangle(from, to, obs[k])

\* 1 - distance / range, in thousandths
DistanceFactor(distance, range) == ONE - (ONE * distance) \div range

\* calculateVisibility with an obstacle halving the strength instead of
\* blocking the view
calculateVisibility_Attenuate(obs, detector, target) ==
    LET distance == DistanceBetween(detector.position, target)
        angleToTarget == AngleBetween(detector.position, target)
        angleDiff == Abs(ShortestBetween(detector.direction * MICRO, angleToTarget))
    IN  IF distance > detector.range THEN 0
        ELSE IF detector.fieldOfView < FULL_CIRCLE
                /\ 2 * angleDiff > detector.fieldOfView * MICRO THEN 0
        ELSE IF ~hasLineOfSight(obs, detector.position, target)
        THEN DistanceFactor(distance, detector.range) \div 2
        ELSE DistanceFactor(distance, detector.range)

calculateVisibility(obs, detector, target) ==
    LET distance == DistanceBetween(detector.position, target)
        angleToTarget == AngleBetween(detector.position, target)
        angleDiff == Abs(ShortestBetween(detector.direction * MICRO, angleToTarget))
    IN  IF distance > detector.range THEN 0
        ELSE IF detector.fieldOfView < FULL_CIRCLE
                /\ 2 * angleDiff > detector.fieldOfView * MICRO THEN 0
        ELSE IF ~hasLineOfSight(obs, detector.position, target) THEN 0
        ELSE DistanceFactor(distance, detector.range)

----------------------------------------------------------------------------
(* DetectionSystem: the private helpers, as functions of the fields they use *)

\* payload of scene.events.emit('detection:stateChanged', ...); before/after
\* record the value of currentDetectionLevel around the assignment
Event(prev, cur, was, is) ==
    [previous |-> prev, current |-> cur, before |-> was, after |-> is]

\* updateDetectionState without the alertTimer guard on the fall to SAFE
updateDetectionState_NoHysteresis(level, timer, detectionLevel) ==
    LET newLevel ==
            IF detectionLevel > DISCOVERED_THRESHOLD THEN DISCOVERED
            ELSE IF detectionLevel > ALERT_THRESHOLD THEN ALERT
            ELSE IF detectionLevel > CAUTION_THRESHOLD THEN CAUTION
            ELSE SAFE
        newTimer ==
            IF detectionLevel > ALERT_THRESHOLD THEN ALERT_TIMEOUT ELSE timer
    IN  [level |-> newLevel,
         timer |-> newTimer,
         events |-> IF level # newLevel
                    THEN <<Event(level, newLevel, level, newLevel)>>
                    ELSE <<>>]

\* updateDetectionState testing the thresholds lowest first
updateDetectionState_LowestFirst(level, timer, detectionLevel) ==
    LET newLevel ==
            IF detectionLevel > CAUTION_THRESHOLD THEN CAUTION
            ELSE IF detectionLevel > ALERT_THRESHOLD THEN ALERT
            ELSE IF detectionLevel > DISCOVERED_THRESHOLD THEN DISCOVERED
            ELSE IF timer <= 0 THEN SAFE
            ELSE level
        newTimer ==
            IF detectionLevel <= CAUTION_THRESHOLD /\ detectionLevel > ALERT_THRESHOLD
            THEN ALERT_TIMEOUT ELSE timer
    IN  [level |-> newLevel,
         timer |-> newTimer,
         events |-> IF level # newLevel
                    THEN <<Event(level, newLevel, level, newLevel)>>
                    ELSE <<>>]

updateDetectionState(level, timer, detectionLevel) ==
    LET newLevel ==
            IF detectionLevel > DISCOVERED_THRESHOLD THEN DISCOVERED
            ELSE IF detectionLevel > ALERT_THRESHOLD THEN ALERT
            ELSE IF detectionLevel > CAUTION_THRESHOLD THEN CAUTION
            ELSE IF timer <= 0 THEN SAFE
            ELSE level
        newTimer ==
            IF detectionLevel > ALERT_THRESHOLD THEN ALERT_TIMEOUT ELSE timer
    IN  [level |-> newLevel,
         timer |-> newTimer,
         events |-> IF level # newLevel
                    THEN <<Event(level, newLevel, level, newLevel)>>
                    ELSE <<>>]

\* updateAlertTimer with the DISCOVERED test on the outer condition: the timer
\* of a discovered system never runs
updateAlertTimer_SkipDiscovered(level, timer, deltaTime) ==
    IF timer > 0 /\ level # DISCOVERED
    THEN LET newTimer == timer - deltaTime
         IN  IF newTimer <= 0
             THEN [level |-> SAFE, timer |-> newTimer,
                   events |-> <<Event(ALERT, SAFE, level, SAFE)>>]
             ELSE [level |-> level, timer |-> newTimer, events |-> <<>>]
    ELSE [level |-> level, timer |-> timer, events |-> <<>>]

updateAlertTimer(level, timer, deltaTime) ==
    IF timer > 0
    THEN LET newTimer == timer - deltaTime
         IN  IF newTimer <= 0 /\ level # DISCOVERED
             THEN [level |-> SAFE, timer |-> newTimer,
                   events |-> <<Event(ALERT, SAFE, level, SAFE)>>]
             ELSE [level |-> level, timer |-> newTimer, events |-> <<>>]
    ELSE [level |-> level, timer |-> timer, events |-> <<>>]

AudioDetectorId(zone) ==
    "audio_" \o ToString(zone.center.x) \o "_" \o ToString(zone.center.y)

\* the noise normalised without the cap at 1
AudioDetectionLevel_Unclamped(noiseLevel) ==
    (ONE * noiseLevel) \div NOISE_REFERENCE_MAX

\* Math.min(1, noiseLevel / 10), in thousandths
AudioDetectionLevel(noiseLevel) ==
    Min(ONE, (ONE * noiseLevel) \div NOISE_REFERENCE_MAX)

RECURSIVE checkAudioDetection(_, _, _)
checkAudioDetection(zones, target, noiseLevel) ==
    IF zones = <<>> THEN <<>>
    ELSE LET zone == Head(zones)
             distance == DistanceBetween(zone.center, target)
             rest == checkAudioDetection(Tail(zones), target, noiseLevel)
         IN  IF distance <= zone.radius /\ noiseLevel >= zone.sensitivity
             THEN <<[detected |-> TRUE,
                     detectionLevel |-> AudioDetectionLevel(noiseLevel),
                     detector |-> Det(AudioDetectorId(zone), zone.center,
                                      zone.radius, FULL_CIRCLE, 0, TRUE, AUDIO),
                     distance |-> distance]>> \o rest
             ELSE rest

\* the aggregate overwritten by each detector instead of maximised
Aggregate_LastWins(maxDetectionLevel, detectionLevel) == detectionLevel

\* maxDetectionLevel = Math.max(maxDetectionLevel, detectionLevel)
Aggregate(maxDetectionLevel, detectionLevel) ==
    Max(maxDetectionLevel, detectionLevel)

\* the loop without the `if (!detector.isActive) continue` line
RECURSIVE visualLoop_IgnoreActive(_, _, _, _)
visualLoop_IgnoreActive(dets, obs, target, acc) ==
    IF dets = <<>> THEN acc
    ELSE LET detector == Head(dets)
             distance == DistanceBetween(detector.position, target)
             detectionLevel ==
                 IF detector.detectorType = VISUAL
                 THEN calculateVisibility(obs, detector, target)
                 ELSE 0
         IN  visualLoop_IgnoreActive(Tail(dets), obs, target,
                    [results |-> Append(acc.results,
                                   [detected |-> detectionLevel > 0,
                                    detectionLevel |-> detectionLevel,
                                    detector |-> detector,
                                    distance |-> distance]),
                     maxDetectionLevel |->
                         Aggregate(acc.maxDetectionLevel, detectionLevel)])

\* the loop over this.detectors.values(), in the order `dets` lists them
RECURSIVE visualLoop(_, _, _, _)
visualLoop(dets, obs, target, acc) ==
    IF dets = <<>> THEN acc
    ELSE LET detector == Head(dets)
             distance == DistanceBetween(detector.position, target)
             detectionLevel ==
                 IF detector.detectorType = VISUAL
                 THEN calculateVisibility(obs, detector, target)
                 ELSE 0
         IN  IF ~detector.isActive
             THEN visualLoop(Tail(dets), obs, target, acc)
             ELSE visualLoop(Tail(dets), obs, target,
                    [results |-> Append(acc.results,
                                   [detected |-> detectionLevel > 0,
                                    detectionLevel |-> detectionLevel,
                                    detector |-> detector,
                                    distance |-> distance]),
                     maxDetectionLevel |->
                         Aggregate(acc.maxDetectionLevel, detectionLevel)])

\* checkDetection(target, noiseLevel) on a system whose fields are the arguments
checkDetection(dets, zones, obs, level, timer, target, noiseLevel) ==
    LET visual == visualLoop(dets, obs, target,
                             [results |-> <<>>, maxDetectionLevel |-> 0])
        audioDetection == checkAudioDetection(zones, target, noiseLevel)
        state == updateDetectionState(level, timer, visual.maxDetectionLevel)
    IN  [results |-> visual.results \o audioDetection,
         maxDetectionLevel |-> visual.maxDetectionLevel,
         level |-> state.level,
         timer |-> state.timer,
         events |-> state.events]

\* Map.prototype.set: an existing key keeps its place
MapSet(dets, detector) ==
    IF \E k \in 1..Len(dets) : dets[k].id = detector.id
    THEN [k \in 1..Len(dets) |->
            IF dets[k].id = detector.id THEN detector ELSE dets[k]]
    ELSE Append(dets, detector)

MapHas(dets, id) == \E k \in 1..Len(dets) : dets[k].id = id

\* Map.prototype.delete
MapDelete(dets, id) == SelectSeq(dets, LAMBDA d : d.id # id)

addDetector(dets, detector) == MapSet(dets, detector)

\* removal by position, splice(findIndex(id), 1): an index of -1 counts from
\* the end, so an unknown id removes the last entry
removeDetector_Splice(dets, id) ==
    IF MapHas(dets, id) \/ dets = <<>>
    THEN MapDelete(dets, id)
    ELSE SubSeq(dets, 1, Len(dets) - 1)

removeDetector(dets, id) == MapDelete(dets, id)

----------------------------------------------------------------------------
(* Drones, DroneManager and InteractionManager (src/entities, src/systems). *)
(* Of a sprite the model keeps what the managers read or write for control  *)
(* and interaction: isActive, position, acceleration and drag.  Tint, alpha, *)
(* rotation and the camera are rendering and are left out.                   *)

INTERACTION_RANGE == 50

MaxInteractables == 2

SPECTRE == "spectre"
BADGER == "badger"

\* accelerationSpeed and dragForce of the two drone classes
accelerationSpeed(kind) == IF kind = SPECTRE THEN 800 ELSE 1000
dragForce(kind) == IF kind = SPECTRE THEN 400 ELSE 2000

\* where the physics step can put a drone: the two spawn points of GameScene
DronePositions == {Pt(100, 100), Pt(100, 200)}

\* cursors.left/right/up/down.isDown
Keys(l, r, u, d) == [left |-> l, right |-> r, up |-> u, down |-> d]

CursorStates ==
    { Keys(FALSE, FALSE, FALSE, FALSE),
      Keys(FALSE, TRUE, FALSE, FALSE),
      Keys(TRUE, TRUE, FALSE, TRUE) }

\* Terminals by name and where they stand.  From (100,100) they are at
\* distance 20, 50 and 50; from (100,200) at 80, 50 and about 112.
TerminalIds == {"t1", "t2", "t3"}

TerminalAt(id) ==
    CASE id = "t1" -> Pt(100, 120)
      [] id = "t2" -> Pt(100, 150)
      [] id = "t3" -> Pt(150, 100)

\* new Spectre(scene, x, y) / new Badger(scene, x, y)
NewDrone(kind, p) ==
    [kind |-> kind, isActive |-> FALSE, x |-> p.x, y |-> p.y,
     acceleration |-> <<0, 0>>, drag |-> dragForce(kind)]

\* BaseDrone.activate
activate(drone) == [drone EXCEPT !.isActive = TRUE]

\* BaseDrone.deactivate
deactivate(drone) ==
    [drone EXCEPT !.isActive = FALSE,
                  !.acceleration = <<0, 0>>,
                  !.drag = dragForce(drone.kind) * 2]

\* Spectre.updateControl / Badger.updateControl
updateControl(drone, cursors) ==
    IF ~drone.isActive THEN drone
    ELSE LET speed == accelerationSpeed(drone.kind)
             accelX == IF cursors.left THEN -speed
                       ELSE IF cursors.right THEN speed ELSE 0
             accelY == IF cursors.up THEN -speed
                       ELSE IF cursors.down THEN speed ELSE 0
         IN  [drone EXCEPT !.drag = dragForce(drone.kind),
                           !.acceleration = <<accelX, accelY>>]

\* new DroneManager(scene, drone1, drone2)
NewDroneManager(drone1, drone2) ==
    [drones |-> <<activate(drone1), deactivate(drone2)>>, activeDrone |-> 1]

\* switchDrone activating the next drone without deactivating the current one
switchDrone_NoDeactivate(ds, active) ==
    LET nextIndex == (active % Len(ds)) + 1
    IN  [drones |-> [ds EXCEPT ![nextIndex] = activate(ds[nextIndex])],
         activeDrone |-> nextIndex]

\* DroneManager.switchDrone; indices count from 1, so (currentIndex + 1) %
\* length is (active % Len) + 1
switchDrone(ds, active) ==
    LET nextIndex == (active % Len(ds)) + 1
        parked == [ds EXCEPT ![active] = deactivate(ds[active])]
    IN  [drones |-> [parked EXCEPT ![nextIndex] = activate(parked[nextIndex])],
         activeDrone |-> nextIndex]

\* DroneManager.getActiveDrone
getActiveDrone(ds, active) == ds[active]

\* new Terminal(scene, x, y)
NewTerminal(p) == [x |-> p.x, y |-> p.y, isHacked |-> FALSE]

\* Terminal.canInteract
canInteract(terminal, droneType) == ~terminal.isHacked

\* Terminal.interact
interact(terminal, droneType) == [terminal EXCEPT !.isHacked = TRUE]

\* the loop of attemptInteraction preferring the farthest valid object
nearestLoop_Farthest(items, ts, drone, droneType, acc) ==
    LET valid == {k \in 1..Len(items) :
                    /\ DistanceBetween(Pt(drone.x, drone.y),
                                       Pt(ts[items[k]].x, ts[items[k]].y))
                         <= INTERACTION_RANGE
                    /\ canInteract(ts[items[k]], droneType)}
        far == {k \in valid : \A j \in valid :
                    DistanceBetween(Pt(drone.x, drone.y),
                                    Pt(ts[items[j]].x, ts[items[j]].y))
                      <= DistanceBetween(Pt(drone.x, drone.y),
                                         Pt(ts[items[k]].x, ts[items[k]].y))}
    IN  IF valid = {} THEN acc
        ELSE [nearest |-> <<items[CHOOSE k \in far : \A j \in far : k <= j]>>,
              minDist |-> 0]

\* the loop of attemptInteraction over this.interactables; nearest is empty for
\* null, and minDist is only read once nearest is set (Infinity before)
RECURSIVE nearestLoop(_, _, _, _, _)
nearestLoop(items, ts, drone, droneType, acc) ==
    IF items = <<>> THEN acc
    ELSE LET item == ts[Head(items)]
             dist == DistanceBetween(Pt(drone.x, drone.y), Pt(item.x, item.y))
         IN  IF /\ dist <= INTERACTION_RANGE
                /\ acc.nearest = <<>> \/ dist < acc.minDist
                /\ canInteract(item, droneType)
             THEN nearestLoop(Tail(items), ts, drone, droneType,
                              [nearest |-> <<Head(items)>>, minDist |-> dist])
             ELSE nearestLoop(Tail(items), ts, drone, droneType, acc)

\* InteractionManager.attemptInteraction: the terminals after it, and the
\* objects interact() was called on
attemptInteraction(items, ts, drone) ==
    LET droneType == IF drone.kind = SPECTRE THEN SPECTRE ELSE BADGER
        found == nearestLoop(items, ts, drone, droneType,
                             [nearest |-> <<>>, minDist |-> 0])
    IN  IF found.nearest # <<>>
        THEN [terminals |->
                  [ts EXCEPT ![found.nearest[1]] = interact(@, droneType)],
              interacted |-> found.nearest]
        ELSE [terminals |-> ts, interacted |-> <<>>]

\* InteractionManager.register
register(items, id) == Append(items, id)

\* InteractionManager.unregister
unregister(items, id) == SelectSeq(items, LAMBDA i : i # id)

NoFrame == [pressed |-> FALSE, interacted |-> <<>>]

----------------------------------------------------------------------------
(* The Drone entity of the Phaser prototype (docs/IMPLEMENTATION_GUIDE.md,  *)
(* System 1).  batteryLevel is kept in thousandths of a unit, deltaTime in  *)
(* milliseconds; the drag the physics body applies between frames is left   *)
(* out.                                                                     *)

MILLI == 1000
CRITICAL_PERCENT == 25
LOW_PERCENT == 50
EMERGENCY_STOP_COST == 5

\* the DroneConfig of the unit tests
DroneConfig ==
    [maxSpeed |-> 100, acceleration |-> 200, drag |-> 300, batteryCapacity |-> 100]

\* frames of 10 and 30 seconds: the battery passes 50% and 25% within a few
DroneDeltaTimes == {10000, 30000}

DroneInputs == {Pt(0, 0), Pt(1, 0), Pt(-1, 1)}

\* new Drone(scene, config)
NewTsDrone(config) ==
    [batteryLevel |-> config.batteryCapacity * MILLI,
     isPrecisionMode |-> FALSE,
     isHovering |-> TRUE,
     inputVector |-> Pt(0, 0),
     velocity |-> Pt(0, 0),
     lastOp |-> "constructor"]

\* getBatteryLevel() <= 25, getBatteryLevel being batteryLevel / capacity * 100
isBatteryCritical(d) ==
    d.batteryLevel * 100 <= CRITICAL_PERCENT * DroneConfig.batteryCapacity * MILLI

\* Phaser.Math.Clamp
Clamp(v, lo, hi) == Max(lo, Min(hi, v))

\* Drone.updateMovement
updateMovement(d, deltaTime) ==
    IF d.batteryLevel <= 0 THEN [d EXCEPT !.velocity = Pt(0, 0)]
    ELSE LET \* speedMultiplier in halves, batteryEfficiency in fifths
             halves == IF d.isPrecisionMode THEN 1 ELSE 2
             fifths == IF d.batteryLevel * 100
                            < LOW_PERCENT * DroneConfig.batteryCapacity * MILLI
                       THEN 4 ELSE 5
             effectiveSpeed == (DroneConfig.maxSpeed * halves * fifths) \div 10
             effectiveAcceleration == (DroneConfig.acceleration * halves) \div 2
             forceX == d.inputVector.x * effectiveAcceleration
             forceY == d.inputVector.y * effectiveAcceleration
         IN  [d EXCEPT !.velocity =
                 Pt(Clamp(d.velocity.x + forceX * deltaTime,
                          -effectiveSpeed, effectiveSpeed),
                    Clamp(d.velocity.y + forceY * deltaTime,
                          -effectiveSpeed, effectiveSpeed))]

\* updateBattery testing for the critical level before it applies the drain
updateBattery_CheckBeforeDrain(d, deltaTime) ==
    LET \* drainRate in halves of a unit per second
        drainRate == 2 + (IF d.isHovering THEN 0
                          ELSE IF d.isPrecisionMode THEN 1 ELSE 2)
        drained == Max(0, d.batteryLevel - (drainRate * deltaTime) \div 2)
    IN  [d EXCEPT !.batteryLevel = drained,
                  !.isPrecisionMode = @ \/ isBatteryCritical(d)]

\* Drone.updateBattery
updateBattery(d, deltaTime) ==
    LET \* drainRate in halves of a unit per second
        drainRate == 2 + (IF d.isHovering THEN 0
                          ELSE IF d.isPrecisionMode THEN 1 ELSE 2)
        drained == [d EXCEPT !.batteryLevel =
                       Max(0, @ - (drainRate * deltaTime) \div 2)]
    IN  IF isBatteryCritical(drained) /\ ~drained.isPrecisionMode
        THEN [drained EXCEPT !.isPrecisionMode = TRUE]
        ELSE drained

\* Drone.update; updateAudioEffects only emits the noise and battery levels
droneUpdate(d, deltaTime) ==
    [updateBattery(updateMovement(d, deltaTime), deltaTime)
        EXCEPT !.lastOp = "update"]

\* Drone.setMovementInput
setMovementInput(d, input) ==
    [d EXCEPT !.inputVector = input,
              !.isHovering = (input.x = 0 /\ input.y = 0),
              !.lastOp = "setMovementInput"]

\* Drone.togglePrecisionMode
togglePrecisionMode(d) ==
    [d EXCEPT !.isPrecisionMode = ~@, !.lastOp = "togglePrecisionMode"]

\* Drone.emergencyStop
emergencyStop(d) ==
    IF d.batteryLevel >= EMERGENCY_STOP_COST * MILLI
    THEN [d EXCEPT !.velocity = Pt(0, 0),
                   !.batteryLevel = @ - EMERGENCY_STOP_COST * MILLI,
                   !.lastOp = "emergencyStop"]
    ELSE [d EXCEPT !.lastOp = "emergencyStop"]

----------------------------------------------------------------------------
(* The Godot Enemy (godot_project/scripts/enemy.gd).  suspicion_level is    *)
(* kept in thousandths, delta and alert_timer in milliseconds.  What the    *)
(* physics world decides (whether the guard sees or hears the player, and   *)
(* how far away the player is) is an input of each tick; forces, rotation   *)
(* and positions are left out.                                              *)

vision_range == 200
audio_detection_range == 100
detection_threshold == 500
suspicion_decay == 300
alert_duration == 5000
SUSPICIOUS_ABOVE == 200

\* enum State
State ==
    [PATROL |-> "PATROL", SUSPICIOUS |-> "SUSPICIOUS", ALERT |-> "ALERT",
     INVESTIGATING |-> "INVESTIGATING"]

EnemyDeltas == {100, 500}

\* what _can_see_player() and _can_hear_player() return on a tick and
\* position.distance_to(player.position); hearing needs distance <
\* audio_detection_range, seeing has no distance test
Sighting(s, h, d) == [see |-> s, hear |-> h, distance |-> d]

Sightings ==
    { Sighting(FALSE, FALSE, 150), Sighting(TRUE, FALSE, 100),
      Sighting(TRUE, TRUE, 50), Sighting(FALSE, TRUE, 50),
      Sighting(TRUE, FALSE, 300) }

\* the fields as declared; player is "none" for null, else "present" or
\* "crashed" (player.is_crashed); delta and detected record the last tick: its
\* delta, and whether _update_detection found suspicion_level >=
\* detection_threshold
NewEnemy ==
    [current_state |-> State.PATROL, suspicion_level |-> 0, alert_timer |-> 0,
     player |-> "none", delta |-> 0, detected |-> FALSE]

\* Enemy._become_alert
become_alert(e) ==
    IF e.current_state # State.ALERT
    THEN [e EXCEPT !.current_state = State.ALERT, !.alert_timer = alert_duration]
    ELSE e

\* Enemy._update_detection
update_detection(e, delta, sighting) ==
    IF e.player # "present" THEN [e EXCEPT !.delta = delta, !.detected = FALSE]
    ELSE LET visibility == ONE - (ONE * sighting.distance) \div vision_range
             audibility == ONE - (ONE * sighting.distance) \div audio_detection_range
             seen == e.suspicion_level
                       + (IF sighting.see THEN (visibility * delta * 2) \div MILLI ELSE 0)
             heard == seen
                       + (IF sighting.hear THEN (audibility * delta) \div (2 * MILLI) ELSE 0)
             decayed == IF heard > 0 /\ e.current_state = State.PATROL
                        THEN heard - (suspicion_decay * delta) \div MILLI
                        ELSE heard
             level == Clamp(decayed, 0, ONE)
             e1 == [e EXCEPT !.suspicion_level = level, !.delta = delta,
                             !.detected = (level >= detection_threshold)]
         IN  IF level >= detection_threshold THEN become_alert(e1)
             ELSE IF level > SUSPICIOUS_ABOVE /\ e.current_state = State.PATROL
             THEN [e1 EXCEPT !.current_state = State.SUSPICIOUS]
             ELSE e1

\* Enemy._suspicious
suspicious(e, delta) ==
    LET level == e.suspicion_level - (suspicion_decay * delta) \div (2 * MILLI)
    IN  [e EXCEPT !.suspicion_level = level,
                  !.current_state = IF level <= 0 THEN State.PATROL ELSE @]

\* Enemy._alert
alert(e, delta) ==
    LET timer == e.alert_timer - delta
    IN  IF timer <= 0
        THEN [e EXCEPT !.alert_timer = timer, !.current_state = State.PATROL,
                       !.suspicion_level = 0]
        ELSE [e EXCEPT !.alert_timer = timer]

\* Enemy._physics_process: _update_detection, then the handler of the state it
\* left (_patrol and _investigate change no field kept here; no code sets
\* INVESTIGATING)
physics_process(e, delta, sighting) ==
    LET e1 == update_detection(e, delta, sighting)
    IN  CASE e1.current_state = State.SUSPICIOUS -> suspicious(e1, delta)
          [] e1.current_state = State.ALERT -> alert(e1, delta)
          [] OTHER -> e1

\* Enemy.reset_state
reset_state(e) ==
    [e EXCEPT !.current_state = State.PATROL, !.suspicion_level = 0,
              !.alert_timer = 0, !.player = "none", !.detected = FALSE]

----------------------------------------------------------------------------
(* The GlobalGameState singleton (unnamed/part_009).  Settings and saving   *)
(* (a stub in the source) are left out; an achievement is its id.           *)

Levels == 1..3
ScorePoints == {5000, 25000}
MaxScore == 50000
MaxMissions == 3
MaxTimesDetected == 1
MaxPlayTime == 3600
PlayTimeDeltas == {1800}

\* the field initialisers; levels_completed is the history of the level_num
\* arguments complete_level was called with
NewGlobalGameState ==
    [total_score |-> 0, highest_level_unlocked |-> 1, total_play_time |-> 0,
     achievements |-> {}, missions_completed |-> 0, times_detected |-> 0,
     levels_completed |-> {}]

\* GlobalGameState._check_achievements with unlock_achievement
check_achievements(g) ==
    [g EXCEPT !.achievements = @ \cup
        (  (IF g.total_score >= 10000 THEN {"score_10k"} ELSE {})
         \cup (IF g.total_score >= 50000 THEN {"score_50k"} ELSE {})
         \cup (IF g.missions_completed >= 1 THEN {"first_mission"} ELSE {})
         \cup (IF g.missions_completed >= 10 THEN {"veteran"} ELSE {})
         \cup (IF g.times_detected = 0 /\ g.missions_completed >= 3
               THEN {"ghost"} ELSE {})
         \cup (IF g.total_play_time >= 3600 THEN {"dedicated"} ELSE {})
         \cup (IF g.highest_level_unlocked >= 3 THEN {"completed_game"} ELSE {}) )]

----------------------------------------------------------------------------
(* A MissionObjective (godot_project/scripts/mission.gd), with the          *)
(* SurveillanceObjective's target callback as the subclass that makes       *)
(* progress.  Times are in milliseconds.  completed_emitted and             *)
(* failed_emitted count the emissions of objective_completed and            *)
(* objective_failed.                                                        *)

ObjectiveDeltas == {1000, 2000}
TargetIds == {"target_a", "target_b", "target_c"}

\* the exported time_limit and required_progress a scene gives an objective
ObjectiveExports == {<<0, 1>>, <<3000, 1>>, <<3000, 2>>, <<0, 3>>}

\* the field initialisers, before _ready
NewObjective ==
    [time_limit |-> 0, required_progress |-> 1, is_complete |-> FALSE,
     is_failed |-> FALSE, current_progress |-> 0, time_remaining |-> 0,
     photographed_targets |-> {}, ready |-> FALSE,
     completed_emitted |-> 0, failed_emitted |-> 0, lastOp |-> "new"]

\* _complete without its guard
complete_Unguarded(o) ==
    [o EXCEPT !.is_complete = TRUE, !.completed_emitted = @ + 1]

\* MissionObjective._complete
complete(o) ==
    IF o.is_complete \/ o.is_failed THEN o
    ELSE [o EXCEPT !.is_complete = TRUE, !.completed_emitted = @ + 1]

\* MissionObjective._fail
fail(o) ==
    IF o.is_complete \/ o.is_failed THEN o
    ELSE [o EXCEPT !.is_failed = TRUE, !.failed_emitted = @ + 1]

----------------------------------------------------------------------------
(* The GameManager (godot_project/scripts/game_manager.gd).  Times are in   *)
(* seconds.  The drone and the objectives enter as drone_crashed            *)
(* (drone.is_crashed) and objectives_complete (every objective's            *)
(* check_completion()); elapsed is the sum of the deltas played since       *)
(* start_mission.                                                           *)

GameState ==
    [MENU |-> "MENU", PLAYING |-> "PLAYING", PAUSED |-> "PAUSED",
     GAME_OVER |-> "GAME_OVER", VICTORY |-> "VICTORY"]

GameDeltas == {15, 30}
MaxElapsed == 150
MaxGameScore == 3000

\* drone.battery and stealth_system.get_detection_level() (thousandths) as
\* _calculate_score reads them
ScoreReadings == {<<100, 0>>, <<40, ONE>>}

\* _load_level_1, _load_level_2, _load_level_3: mission_time
LevelTime(level_num) ==
    CASE level_num = 2 -> 90
      [] level_num = 3 -> 60
      [] OTHER -> 120

\* the field initialisers and _ready
NewGame ==
    [current_state |-> GameState.MENU, current_level |-> 1, score |-> 0,
     mission_time |-> 0, elapsed |-> 0, drone_crashed |-> FALSE,
     objectives_complete |-> FALSE, message |-> ""]

\* GameManager.start_mission with _setup_game_systems (drone.reset_drone) and
\* _load_level (a new, incomplete objective)
start_mission(g, level_num) ==
    [g EXCEPT !.current_level = level_num, !.current_state = GameState.PLAYING,
              !.mission_time = LevelTime(level_num), !.elapsed = 0,
              !.drone_crashed = FALSE, !.objectives_complete = FALSE,
              !.message = ""]

\* GameManager._calculate_score
calculate_score(g, reading) ==
    [g EXCEPT !.score = @ + 1000 * g.current_level + reading[1] * 10
                          + g.mission_time * 5
                          + ((ONE - reading[2]) * 500) \div ONE]

\* GameManager._end_game
end_game(g, success, message) ==
    [g EXCEPT !.current_state = IF success THEN GameState.VICTORY
                                ELSE GameState.GAME_OVER,
              !.message = message]

\* GameManager._check_mission_status
check_mission_status(g, reading) ==
    IF g.drone_crashed THEN end_game(g, FALSE, "Drone destroyed!")
    ELSE IF g.mission_time <= 0 THEN end_game(g, FALSE, "Time limit exceeded!")
    ELSE IF g.objectives_complete
    THEN end_game(calculate_score(g, reading), TRUE, "Mission Complete!")
    ELSE g

----------------------------------------------------------------------------
(* The Godot Drone (class Drone of godot_project/scripts/                   *)
(* camera_controller.gd): battery, action cooldown and crash.  battery is   *)
(* in battery units, delta and action_timer in milliseconds; whether the    *)
(* drone moves (linear_velocity.length() > 10) is an input of each tick.    *)
(* lastOp and returned record the last call and what perform_action         *)
(* returned.                                                                *)

max_battery == 100
battery_drain_rate == 2
action_cooldown == 500

GdDeltas == {500, 2500}
ActionTypes == {"scan", "hack", "mark", "photograph", "dance"}

\* the battery tests of _perform_scan, _perform_hack, _perform_mark and
\* _perform_photograph
ActionCost(action_type) ==
    CASE action_type = "scan" -> 10
      [] action_type = "hack" -> 15
      [] action_type = "mark" -> 5
      [] action_type = "photograph" -> 8

\* the field initialisers and _ready
NewGdDrone ==
    [battery |-> max_battery, action_timer |-> 0, is_crashed |-> FALSE,
     lastOp |-> "ready", returned |-> FALSE]

\* Drone.perform_action with the _perform_* it dispatches to
perform_action(d, action_type) ==
    IF d.action_timer > 0 \/ d.is_crashed
    THEN [d EXCEPT !.lastOp = "perform_action", !.returned = FALSE]
    ELSE LET d1 == [d EXCEPT !.action_timer = action_cooldown,
                             !.lastOp = "perform_action", !.returned = FALSE]
         IN  IF action_type \notin {"scan", "hack", "mark", "photograph"}
             THEN d1
             ELSE IF d1.battery < ActionCost(action_type) THEN d1
             ELSE [d1 EXCEPT !.battery = @ - ActionCost(action_type),
                             !.returned = TRUE]

----------------------------------------------------------------------------
(* The Godot StealthSystem (class StealthSystem of godot_project/scripts/   *)
(* drone_sprite.gd).  Stealth, detection and noise are in thousandths.      *)
(* What a tick reads from the world is its input: the player's noise and,   *)
(* for every registered enemy, its state, its distance to the player,       *)
(* whether the player is inside its vision cone and whether the ray to the  *)
(* player is free.  hidden_emitted counts the emissions of hidden; exposed  *)
(* records whether on the last tick some enemy out of PATROL had the player *)
(* in its vision range and cone with a free ray.                            *)

noise_penalty == 300
HIDDEN_BELOW == 300
MaxAccumulator == 1000

EnemyIds == {"guard_a", "guard_b"}
PlayerNoises == {0, 500, 1200}

EnemyViews ==
    { [state |-> State.PATROL, distance |-> 20, in_cone |-> TRUE, los |-> TRUE],
      [state |-> State.ALERT, distance |-> 20, in_cone |-> TRUE, los |-> TRUE],
      [state |-> State.SUSPICIOUS, distance |-> 50, in_cone |-> FALSE, los |-> TRUE],
      [state |-> State.ALERT, distance |-> 150, in_cone |-> TRUE, los |-> FALSE],
      [state |-> State.ALERT, distance |-> 300, in_cone |-> TRUE, los |-> TRUE] }

\* the field initialisers; player is "none" for null, else "present" or
\* "crashed"
NewStealthSystem ==
    [player |-> "none", enemies |-> {}, is_hidden |-> TRUE,
     current_stealth |-> ONE, detection_accumulator |-> 0,
     hidden_emitted |-> 0, exposed |-> FALSE, lastOp |-> "new"]

Seen(view) ==
    /\ view.state # State.PATROL
    /\ view.distance < vision_range /\ view.in_cone /\ view.los

\* _calculate_enemy_detection not scaled by 1.0 - current_stealth
calculate_enemy_detection_Unscaled(view, player_noise, current_stealth) ==
    IF view.state = State.PATROL THEN 0
    ELSE IF Seen(view)
    THEN ONE - (ONE * view.distance) \div vision_range
    ELSE IF player_noise > 0 /\ view.distance < audio_detection_range
    THEN LET audibility ==
                 ((ONE - (ONE * view.distance) \div audio_detection_range)
                    * player_noise) \div ONE
         IN  (audibility * noise_penalty) \div ONE
    ELSE 0

\* StealthSystem._calculate_enemy_detection
calculate_enemy_detection(view, player_noise, current_stealth) ==
    IF view.state = State.PATROL THEN 0
    ELSE IF Seen(view)
    THEN ((ONE - (ONE * view.distance) \div vision_range) * (ONE - current_stealth))
             \div ONE
    ELSE IF player_noise > 0 /\ view.distance < audio_detection_range
    THEN LET audibility ==
                 ((ONE - (ONE * view.distance) \div audio_detection_range)
                    * player_noise) \div ONE
         IN  (((audibility * noise_penalty) \div ONE) * (ONE - current_stealth))
                 \div ONE
    ELSE 0

\* the loop of _physics_process over the enemies
RECURSIVE total_detection(_, _, _, _)
total_detection(ids, views, player_noise, current_stealth) ==
    IF ids = {} THEN 0
    ELSE LET id == CHOOSE e \in ids : TRUE
         IN  calculate_enemy_detection(views[id], player_noise, current_stealth)
               + total_detection(ids \ {id}, views, player_noise, current_stealth)

\* StealthSystem.get_detection_level
get_detection_level(s) == ONE - s.current_stealth

----------------------------------------------------------------------------
(* The system as a state machine: one action per public method *)

\* levelBefore: currentDetectionLevel when the call was made;
\* id: the argument of removeDetector; found: what its Map.delete returned;
\* maxDetectionLevel: the strength checkDetection handed to updateDetectionState
Call(op) ==
    [op |-> op, levelBefore |-> currentDetectionLevel, id |-> "", found |-> FALSE,
     maxDetectionLevel |-> 0]

NoScenario == [kind |-> "none", elapsed |-> 0]

\* time accumulated by update() since the scenario began, saturating
Elapse(sc, deltaTime) ==
    IF sc.kind = "none" THEN sc
    ELSE [sc EXCEPT !.elapsed = Min(@ + deltaTime, ALERT_TIMEOUT + 1)]

\* the scenario after a checkDetection that computed strength m and took the
\* fields from (level, timer) to (level2, timer2)
Observe(sc, level, timer, m, level2, timer2) ==
    IF m = 0 THEN sc
    ELSE IF level2 = DISCOVERED /\ timer2 = ALERT_TIMEOUT
    THEN [kind |-> "discovered", elapsed |-> 0]
    ELSE IF level = SAFE /\ timer = 0
            /\ m > ALERT_THRESHOLD /\ m <= DISCOVERED_THRESHOLD
    THEN [kind |-> "alertSpike", elapsed |-> 0]
    ELSE NoScenario

Init ==
    /\ detectors = <<>>
    /\ audioZones = <<>>
    /\ obstacles = <<>>
    /\ currentDetectionLevel = SAFE
    /\ alertTimer = 0
    /\ emitted = <<>>
    /\ results = <<>>
    /\ lastCall = Call("constructor")
    /\ scenario = NoScenario
    /\ query = <<>>
    /\ \E m \in {NewDroneManager(NewDrone(SPECTRE, Pt(100, 100)),
                                 NewDrone(BADGER, Pt(100, 200)))} :
          /\ drones = m.drones
          /\ activeDrone = m.activeDrone
    /\ terminals = [id \in TerminalIds |-> NewTerminal(TerminalAt(id))]
    /\ interactables = <<>>
    /\ lastFrame = NoFrame
    /\ tsDrone = NewTsDrone(DroneConfig)
    /\ enemy = NewEnemy
    /\ globalState = NewGlobalGameState
    /\ objective = NewObjective
    /\ game = NewGame
    /\ stealth = NewStealthSystem
    /\ gdDrone = NewGdDrone

AddDetector(detector) ==
    /\ MapHas(detectors, detector.id) \/ Len(detectors) < MaxDetectors
    /\ detectors' = addDetector(detectors, detector)
    /\ emitted' = <<>>
    /\ results' = <<>>
    /\ lastCall' = Call("addDetector")
    /\ UNCHANGED <<audioZones, obstacles, currentDetectionLevel, alertTimer,
                   scenario>>
    /\ UNCHANGED otherSystems

RemoveDetector(id) ==
    /\ detectors' = removeDetector(detectors, id)
    /\ emitted' = <<>>
    /\ results' = <<>>
    /\ lastCall' = [Call("removeDetector") EXCEPT
                        !.id = id, !.found = MapHas(detectors, id)]
    /\ UNCHANGED <<audioZones, obstacles, currentDetectionLevel, alertTimer,
                   scenario>>
    /\ UNCHANGED otherSystems

AddAudioZone(zone) ==
    /\ Len(audioZones) < MaxAudioZones
    /\ audioZones' = Append(audioZones, zone)
    /\ emitted' = <<>>
    /\ results' = <<>>
    /\ lastCall' = Call("addAudioZone")
    /\ UNCHANGED <<detectors, obstacles, currentDetectionLevel, alertTimer,
                   scenario>>
    /\ UNCHANGED otherSystems

AddObstacle(obstacle) ==
    /\ Len(obstacles) < MaxObstacles
    /\ obstacles' = Append(obstacles, obstacle)
    /\ emitted' = <<>>
    /\ results' = <<>>
    /\ lastCall' = Call("addObstacle")
    /\ UNCHANGED <<detectors, audioZones, currentDetectionLevel, alertTimer,
                   scenario>>
    /\ UNCHANGED otherSystems

Shutdown ==
    /\ detectors' = <<>>
    /\ audioZones' = <<>>
    /\ emitted' = <<>>
    /\ results' = <<>>
    /\ lastCall' = Call("shutdown")
    /\ UNCHANGED <<obstacles, currentDetectionLevel, alertTimer, scenario>>
    /\ UNCHANGED otherSystems

Update(deltaTime) ==
    \E r \in {updateAlertTimer(currentDetectionLevel, alertTimer, deltaTime)} :
        /\ currentDetectionLevel' = r.level
        /\ alertTimer' = r.timer
        /\ emitted' = r.events
        /\ results' = <<>>
        /\ lastCall' = Call("update")
        /\ scenario' = Elapse(scenario, deltaTime)
        /\ UNCHANGED <<detectors, audioZones, obstacles>>
        /\ UNCHANGED otherSystems

CheckDetection(target, noiseLevel) ==
    \E r \in {checkDetection(detectors, audioZones, obstacles,
                            currentDetectionLevel, alertTimer, target, noiseLevel)} :
        /\ currentDetectionLevel' = r.level
        /\ alertTimer' = r.timer
        /\ emitted' = r.events
        /\ results' = r.results
        /\ lastCall' = [Call("checkDetection") EXCEPT
                            !.maxDetectionLevel = r.maxDetectionLevel]
        /\ scenario' = Observe(scenario, currentDetectionLevel, alertTimer,
                               r.maxDetectionLevel, r.level, r.timer)
        /\ UNCHANGED <<detectors, audioZones, obstacles>>
        /\ UNCHANGED otherSystems

Next ==
    \/ \E detector \in DetectorCatalog : AddDetector(detector)
    \/ \E id \in DetectorIds : RemoveDetector(id)
    \/ \E zone \in AudioZoneCatalog : AddAudioZone(zone)
    \/ \E obstacle \in ObstacleCatalog : AddObstacle(obstacle)
    \/ Shutdown
    \/ \E deltaTime \in DeltaTimes : Update(deltaTime)
    \/ \E target \in TargetPositions, noiseLevel \in NoiseLevels :
          CheckDetection(target, noiseLevel)

Spec == Init /\ [][Next]_vars

----------------------------------------------------------------------------
(* The LineOfSightCalculator on its own: obstacles are added and            *)
(* calculateVisibility is called directly                                   *)

\* Detectors at the origin: two ranges; a quarter view facing right, a quarter
\* view facing down (90 degrees), a half view facing right, and a full circle.
LosDetectorCatalog ==
    { Det("los", Pt(0, 0), r, f[1], f[2], TRUE, VISUAL) :
        r \in {5, 10}, f \in {<<90, 0>>, <<90, 90>>, <<180, 0>>, <<360, 0>>} }

\* The detector's own position; points at distance 3, 5 and 10 on the axes,
\* that is inside, at and beyond the shorter range and at the longer one; and
\* one point off the axes at distance 5.
LosTargets ==
    { Pt(0, 0), Pt(3, 0), Pt(5, 0), Pt(10, 0), Pt(0, 3), Pt(0, 5), Pt(-3, 0),
      Pt(3, 4) }

\* a wall across the positive x axis, and a block in the second quadrant that
\* meets no segment from the origin to a target
LosObstacleCatalog ==
    { [x |-> 2, y |-> -1, width |-> 1, height |-> 2],
      [x |-> -6, y |-> 2, width |-> 2, height |-> 2] }

LosAddObstacle(obstacle) ==
    /\ Len(obstacles) < MaxObstacles
    /\ obstacles' = Append(obstacles, obstacle)
    /\ query' = <<>>
    /\ UNCHANGED <<detectionVars, sceneVars, standaloneVars>>

CalculateVisibility(detector, target) ==
    /\ query' = <<[detector |-> detector, target |-> target,
                   visibility |-> calculateVisibility(obstacles, detector, target)]>>
    /\ UNCHANGED <<detectionVars, obstacles, sceneVars, standaloneVars>>

LosNext ==
    \/ \E obstacle \in LosObstacleCatalog : LosAddObstacle(obstacle)
    \/ \E detector \in LosDetectorCatalog, target \in LosTargets :
          CalculateVisibility(detector, target)

SpecLOS == Init /\ [][LosNext]_vars

----------------------------------------------------------------------------
(* The game scene: the TAB key, the frame update, the physics step, and the *)
(* registration of interactables                                            *)

\* GameScene's 'keydown-TAB' handler
SwitchDrone ==
    \E m \in {switchDrone(drones, activeDrone)} :
        /\ drones' = m.drones
        /\ activeDrone' = m.activeDrone
        /\ lastFrame' = NoFrame
        /\ UNCHANGED <<terminals, interactables>>
        /\ UNCHANGED <<detectionVars, obstacles, query, standaloneVars>>

\* GameScene.update: droneManager.update, then interactionManager.update with
\* the active drone; justDown is Phaser.Input.Keyboard.JustDown(interactKey)
SceneUpdate(cursors, justDown) ==
    \E ds \in {[drones EXCEPT ![activeDrone] = updateControl(@, cursors)]} :
      \E r \in {IF justDown
                 THEN attemptInteraction(interactables, terminals,
                                         getActiveDrone(ds, activeDrone))
                 ELSE [terminals |-> terminals, interacted |-> <<>>]} :
        /\ drones' = ds
        /\ terminals' = r.terminals
        /\ lastFrame' = [pressed |-> justDown, interacted |-> r.interacted]
        /\ UNCHANGED <<activeDrone, interactables>>
        /\ UNCHANGED <<detectionVars, obstacles, query, standaloneVars>>

\* the arcade physics step carrying a drone to another place
MoveDrone(k, p) ==
    /\ Pt(drones[k].x, drones[k].y) # p
    /\ drones' = [drones EXCEPT ![k].x = p.x, ![k].y = p.y]
    /\ lastFrame' = NoFrame
    /\ UNCHANGED <<activeDrone, terminals, interactables>>
    /\ UNCHANGED <<detectionVars, obstacles, query, standaloneVars>>

Register(id) ==
    /\ Len(interactables) < MaxInteractables
    /\ interactables' = register(interactables, id)
    /\ lastFrame' = NoFrame
    /\ UNCHANGED <<drones, activeDrone, terminals>>
    /\ UNCHANGED <<detectionVars, obstacles, query, standaloneVars>>

Unregister(id) ==
    /\ interactables' = unregister(interactables, id)
    /\ lastFrame' = NoFrame
    /\ UNCHANGED <<drones, activeDrone, terminals>>
    /\ UNCHANGED <<detectionVars, obstacles, query, standaloneVars>>

SceneNext ==
    \/ SwitchDrone
    \/ \E cursors \in CursorStates, justDown \in BOOLEAN :
          SceneUpdate(cursors, justDown)
    \/ \E k \in 1..Len(drones), p \in DronePositions : MoveDrone(k, p)
    \/ \E id \in TerminalIds : Register(id)
    \/ \E id \in TerminalIds : Unregister(id)

SpecScene == Init /\ [][SceneNext]_vars

----------------------------------------------------------------------------
(* The Drone entity driven by its public methods *)

DroneUpdate(deltaTime) ==
    /\ tsDrone' = droneUpdate(tsDrone, deltaTime)
    /\ UNCHANGED besidesTsDrone

SetMovementInput(input) ==
    /\ tsDrone' = setMovementInput(tsDrone, input)
    /\ UNCHANGED besidesTsDrone

TogglePrecisionMode ==
    /\ tsDrone' = togglePrecisionMode(tsDrone)
    /\ UNCHANGED besidesTsDrone

EmergencyStop ==
    /\ tsDrone' = emergencyStop(tsDrone)
    /\ UNCHANGED besidesTsDrone

DroneNext ==
    \/ \E deltaTime \in DroneDeltaTimes : DroneUpdate(deltaTime)
    \/ \E input \in DroneInputs : SetMovementInput(input)
    \/ TogglePrecisionMode
    \/ EmergencyStop

SpecDrone == Init /\ [][DroneNext]_vars

----------------------------------------------------------------------------
(* The Enemy driven by the physics tick and its callbacks *)

EnemyTick(delta, sighting) ==
    /\ enemy' = physics_process(enemy, delta, sighting)
    /\ UNCHANGED besidesEnemy

\* _on_hearing_body_entered with a Drone
HearingBodyEntered ==
    /\ enemy' = [enemy EXCEPT !.player = "present", !.detected = FALSE]
    /\ UNCHANGED besidesEnemy

\* the drone held in player crashes
PlayerCrashes ==
    /\ enemy.player = "present"
    /\ enemy' = [enemy EXCEPT !.player = "crashed", !.detected = FALSE]
    /\ UNCHANGED besidesEnemy

ResetState ==
    /\ enemy' = reset_state(enemy)
    /\ UNCHANGED besidesEnemy

EnemyNext ==
    \/ \E delta \in EnemyDeltas, sighting \in Sightings : EnemyTick(delta, sighting)
    \/ HearingBodyEntered
    \/ PlayerCrashes
    \/ ResetState

SpecEnemy == Init /\ [][EnemyNext]_vars

----------------------------------------------------------------------------
(* The GlobalGameState singleton under its callers *)

\* _process
GlobalProcess(delta) ==
    /\ globalState.total_play_time < MaxPlayTime
    /\ globalState' = [globalState EXCEPT !.total_play_time = @ + delta]
    /\ UNCHANGED besidesGlobalState

\* start_session
StartSession ==
    /\ globalState' = [globalState EXCEPT !.missions_completed = 0,
                                          !.times_detected = 0]
    /\ UNCHANGED besidesGlobalState

\* add_score
AddScore(points) ==
    /\ globalState.total_score < MaxScore
    /\ globalState' =
           check_achievements([globalState EXCEPT !.total_score = @ + points])
    /\ UNCHANGED besidesGlobalState

\* complete_level
CompleteLevel(level_num) ==
    /\ globalState.missions_completed < MaxMissions
    /\ globalState' =
           check_achievements(
               [globalState EXCEPT
                  !.missions_completed = @ + 1,
                  !.levels_completed = @ \cup {level_num},
                  !.highest_level_unlocked =
                      IF level_num >= @ /\ level_num < 3 THEN level_num + 1 ELSE @])
    /\ UNCHANGED besidesGlobalState

\* record_detection
RecordDetection ==
    /\ globalState.times_detected < MaxTimesDetected
    /\ globalState' = [globalState EXCEPT !.times_detected = @ + 1]
    /\ UNCHANGED besidesGlobalState

\* reset_progress
ResetProgress ==
    /\ globalState' = [globalState EXCEPT !.total_score = 0,
                                          !.highest_level_unlocked = 1,
                                          !.achievements = {}]
    /\ UNCHANGED besidesGlobalState

GlobalNext ==
    \/ \E delta \in PlayTimeDeltas : GlobalProcess(delta)
    \/ StartSession
    \/ \E points \in ScorePoints : AddScore(points)
    \/ \E level_num \in Levels : CompleteLevel(level_num)
    \/ RecordDetection
    \/ ResetProgress

SpecGlobalState == Init /\ [][GlobalNext]_vars

----------------------------------------------------------------------------
(* A MissionObjective in its scene *)

\* the scene's exports, then _ready
ObjectiveReady(exports) ==
    /\ ~objective.ready
    /\ objective' =
           [objective EXCEPT !.time_limit = exports[1],
                             !.required_progress = exports[2],
                             !.time_remaining = IF exports[1] > 0 THEN exports[1] ELSE @,
                             !.ready = TRUE, !.lastOp = "ready"]
    /\ UNCHANGED besidesObjective

\* _physics_process (the base _update_progress does nothing)
ObjectivePhysicsProcess(delta) ==
    /\ objective.ready
    /\ objective' =
           IF objective.is_complete \/ objective.is_failed
           THEN [objective EXCEPT !.lastOp = "physics_process"]
           ELSE IF objective.time_limit > 0
           THEN LET o == [objective EXCEPT !.time_remaining = @ - delta,
                                           !.lastOp = "physics_process"]
                IN  IF o.time_remaining <= 0 THEN fail(o) ELSE o
           ELSE [objective EXCEPT !.lastOp = "physics_process"]
    /\ UNCHANGED besidesObjective

\* SurveillanceObjective._on_target_entered with a Drone whose
\* perform_action("photograph") returns true
TargetEntered(target_id) ==
    /\ objective.ready
    /\ target_id \notin objective.photographed_targets
    /\ objective' =
           LET o == [objective EXCEPT !.photographed_targets = @ \cup {target_id},
                                      !.current_progress = @ + 1,
                                      !.lastOp = "target_entered"]
           IN  IF o.current_progress >= o.required_progress THEN complete(o) ELSE o
    /\ UNCHANGED besidesObjective

\* a call of _complete
ObjectiveComplete ==
    /\ objective.ready
    /\ objective' = complete([objective EXCEPT !.lastOp = "complete"])
    /\ UNCHANGED besidesObjective

\* a call of _fail
ObjectiveFail ==
    /\ objective.ready
    /\ objective' = fail([objective EXCEPT !.lastOp = "fail"])
    /\ UNCHANGED besidesObjective

ObjectiveNext ==
    \/ \E exports \in ObjectiveExports : ObjectiveReady(exports)
    \/ \E delta \in ObjectiveDeltas : ObjectivePhysicsProcess(delta)
    \/ \E target_id \in TargetIds : TargetEntered(target_id)
    \/ ObjectiveComplete
    \/ ObjectiveFail

SpecObjective == Init /\ [][ObjectiveNext]_vars

----------------------------------------------------------------------------
(* The GameManager under the physics tick, the UI and the scene *)

StartMission(level_num) ==
    /\ game' = start_mission(game, level_num)
    /\ UNCHANGED besidesGame

\* _physics_process
GamePhysicsProcess(delta, reading) ==
    /\ game.elapsed < MaxElapsed
    /\ game.score < MaxGameScore
    /\ game' = IF game.current_state # GameState.PLAYING THEN game
               ELSE check_mission_status(
                        [game EXCEPT !.mission_time = @ + delta,
                                     !.elapsed = @ + delta], reading)
    /\ UNCHANGED besidesGame

\* next_level
NextLevel ==
    /\ game' = IF game.current_level < 3
               THEN start_mission(game, game.current_level + 1)
               ELSE [game EXCEPT !.current_state = GameState.VICTORY]
    /\ UNCHANGED besidesGame

\* _on_ui_mission_completed
OnUiMissionCompleted(reading) ==
    /\ game.score < MaxGameScore
    /\ game' = end_game(calculate_score(game, reading), TRUE, "Mission Complete!")
    /\ UNCHANGED besidesGame

\* _on_ui_mission_failed
OnUiMissionFailed ==
    /\ game' = end_game(game, FALSE, "Mission failed")
    /\ UNCHANGED besidesGame

\* restart_level: the scene is reloaded
RestartLevel ==
    /\ game' = NewGame
    /\ UNCHANGED besidesGame

\* the drone crashes during a mission
GameDroneCrashes ==
    /\ game.current_state = GameState.PLAYING
    /\ game' = [game EXCEPT !.drone_crashed = TRUE]
    /\ UNCHANGED besidesGame

\* the level's objective completes during a mission
GameObjectivesComplete ==
    /\ game.current_state = GameState.PLAYING
    /\ game' = [game EXCEPT !.objectives_complete = TRUE]
    /\ UNCHANGED besidesGame

GameNext ==
    \/ \E level_num \in Levels : StartMission(level_num)
    \/ \E delta \in GameDeltas, reading \in ScoreReadings :
           GamePhysicsProcess(delta, reading)
    \/ NextLevel
    \/ \E reading \in ScoreReadings : OnUiMissionCompleted(reading)
    \/ OnUiMissionFailed
    \/ RestartLevel
    \/ GameDroneCrashes
    \/ GameObjectivesComplete

SpecGame == Init /\ [][GameNext]_vars

----------------------------------------------------------------------------
(* The Godot Drone under the physics tick, its callers and collisions *)

\* _physics_process: _handle_battery and _handle_action_cooldown
GdPhysicsProcess(delta, moving) ==
    /\ gdDrone' =
           IF gdDrone.is_crashed THEN [gdDrone EXCEPT !.lastOp = "physics_process"]
           ELSE LET drained == IF moving
                               THEN gdDrone.battery - (battery_drain_rate * delta) \div MILLI
                               ELSE gdDrone.battery
                    level == Clamp(drained, 0, max_battery)
                IN  [gdDrone EXCEPT
                       !.battery = level,
                       !.is_crashed = (level <= 0),
                       !.action_timer = IF @ > 0 THEN @ - delta ELSE @,
                       !.lastOp = "physics_process"]
    /\ UNCHANGED besidesGdDrone

PerformAction(action_type) ==
    /\ gdDrone' = perform_action(gdDrone, action_type)
    /\ UNCHANGED besidesGdDrone

\* _on_body_entered with a Wall or an Obstacle: _crash
GdBodyEntered ==
    /\ gdDrone' = [gdDrone EXCEPT !.is_crashed = TRUE, !.lastOp = "body_entered"]
    /\ UNCHANGED besidesGdDrone

\* reset_drone
ResetDrone ==
    /\ gdDrone' = [gdDrone EXCEPT !.battery = max_battery, !.is_crashed = FALSE,
                                  !.lastOp = "reset_drone"]
    /\ UNCHANGED besidesGdDrone

GdDroneNext ==
    \/ \E delta \in GdDeltas, moving \in BOOLEAN : GdPhysicsProcess(delta, moving)
    \/ \E action_type \in ActionTypes : PerformAction(action_type)
    \/ GdBodyEntered
    \/ ResetDrone

SpecGdDrone == Init /\ [][GdDroneNext]_vars

----------------------------------------------------------------------------
(* The StealthSystem under the physics tick and the enemies' signals *)

\* register_player, with a drone that is intact or crashed
RegisterPlayer(p) ==
    /\ stealth' = [stealth EXCEPT !.player = p, !.lastOp = "register_player"]
    /\ UNCHANGED besidesStealth

\* register_enemy
RegisterEnemy(e) ==
    /\ stealth' = [stealth EXCEPT !.enemies = @ \cup {e},
                                  !.lastOp = "register_enemy"]
    /\ UNCHANGED besidesStealth

\* _physics_process
StealthPhysicsProcess(views, player_noise) ==
    /\ stealth' =
           IF stealth.player # "present"
           THEN [stealth EXCEPT !.lastOp = "physics_process", !.exposed = FALSE]
           ELSE LET total == total_detection(stealth.enemies, views, player_noise,
                                             stealth.current_stealth)
                    flips == (total > HIDDEN_BELOW) = stealth.is_hidden
                IN  [stealth EXCEPT
                       !.current_stealth = Clamp(ONE - total, 0, ONE),
                       !.is_hidden = ~(total > HIDDEN_BELOW),
                       !.hidden_emitted = IF flips THEN @ + 1 ELSE @,
                       !.exposed = \E e \in stealth.enemies : Seen(views[e]),
                       !.lastOp = "physics_process"]
    /\ UNCHANGED besidesStealth

\* _on_enemy_detection
OnEnemyDetection ==
    /\ stealth.detection_accumulator < MaxAccumulator
    /\ stealth' = [stealth EXCEPT !.detection_accumulator = @ + 100,
                                  !.lastOp = "on_enemy_detection"]
    /\ UNCHANGED besidesStealth

\* _on_enemy_alert
OnEnemyAlert(is_alert) ==
    /\ stealth' = [stealth EXCEPT
                     !.detection_accumulator =
                         Clamp(IF is_alert THEN @ + 300 ELSE @ - 100, 0, ONE),
                     !.lastOp = "on_enemy_alert"]
    /\ UNCHANGED besidesStealth

\* reset
StealthReset ==
    /\ stealth' = [stealth EXCEPT !.detection_accumulator = 0,
                                  !.current_stealth = ONE, !.is_hidden = TRUE,
                                  !.lastOp = "reset"]
    /\ UNCHANGED besidesStealth

StealthNext ==
    \/ \E p \in {"present", "crashed"} : RegisterPlayer(p)
    \/ \E e \in EnemyIds : RegisterEnemy(e)
    \/ \E views \in [EnemyIds -> EnemyViews], player_noise \in PlayerNoises :
           StealthPhysicsProcess(views, player_noise)
    \/ OnEnemyDetection
    \/ \E is_alert \in BOOLEAN : OnEnemyAlert(is_alert)
    \/ StealthReset

SpecStealth == Init /\ [][StealthNext]_vars

----------------------------------------------------------------------------
(* Properties *)

\* severity order of DetectionLevel
Rank(level) ==
    CASE level = SAFE -> 0
      [] level = CAUTION -> 1
      [] level = ALERT -> 2
      [] level = DISCOVERED -> 3

\* the largest detectionLevel among a list of DetectionResults
RECURSIVE MaxLevelOf(_)
MaxLevelOf(rs) ==
    IF rs = <<>> THEN 0 ELSE Max(Head(rs).detectionLevel, MaxLevelOf(Tail(rs)))

\* the multiset of the elements of a sequence
BagOf(seq) ==
    [e \in {seq[k] : k \in 1..Len(seq)} |->
        Cardinality({k \in 1..Len(seq) : seq[k] = e})]

\* every order in which the entries of the registry can be iterated
Orders(dets) ==
    {[k \in 1..Len(dets) |-> dets[f[k]]] : f \in Permutations(1..Len(dets))}

C2_LoweredOnlyAfterExpiry ==
    [][Rank(currentDetectionLevel') < Rank(currentDetectionLevel)
          => alertTimer' <= 0]_vars

\* C3: a tick (an update directly followed by a checkDetection) emits exactly one
\* stateChanged event if the level at its end differs from the level at its
\* start, and none otherwise.
C3_OneEventPerChangedTick ==
    [][(lastCall.op = "update" /\ lastCall'.op = "checkDetection") =>
          Len(emitted) + Len(emitted')
              = IF currentDetectionLevel' # lastCall.levelBefore THEN 1 ELSE 0]_vars

\* C4: the strength checkDetection hands to the state transition is the largest
\* detectionLevel among all the results it returns, visual and audio.
C4_MaxOverAllResults ==
    lastCall.op = "checkDetection" =>
        lastCall.maxDetectionLevel = MaxLevelOf(results)

\* C5: a checkDetection whose aggregate strength exceeds the DISCOVERED threshold
\* leaves the level DISCOVERED and alertTimer = ALERT_TIMEOUT.
C5_DiscoveredWins ==
    (lastCall.op = "checkDetection"
        /\ lastCall.maxDetectionLevel > DISCOVERED_THRESHOLD) =>
        /\ currentDetectionLevel = DISCOVERED
        /\ alertTimer = ALERT_TIMEOUT

C5_Witness ==
    /\ lastCall.op = "checkDetection"
    /\ lastCall.maxDetectionLevel > DISCOVERED_THRESHOLD
    /\ currentDetectionLevel = DISCOVERED
    /\ \E k \in 1..Len(emitted) : emitted[k].before = ALERT

\* C6: once DISCOVERED with alertTimer = ALERT_TIMEOUT, after more than
\* ALERT_TIMEOUT of update() time with only zero strengths, the level is SAFE
\* after a checkDetection.
C6_TimeoutRecovery ==
    (scenario.kind = "discovered"
        /\ scenario.elapsed > ALERT_TIMEOUT
        /\ lastCall.op = "checkDetection") =>
        currentDetectionLevel = SAFE

C6_Witness ==
    /\ scenario.kind = "discovered"
    /\ scenario.elapsed > ALERT_TIMEOUT
    /\ lastCall.op = "checkDetection"
    /\ currentDetectionLevel = SAFE
    /\ \E k \in 1..Len(emitted) : emitted[k].before = DISCOVERED

\* C7: when a tick's update() takes the level from ALERT or CAUTION to SAFE,
\* the strength of that tick's checkDetection is at or below the CAUTION threshold.
C7_SafeOnlyOnLowTick ==
    [][(/\ lastCall.op = "update"
        /\ lastCall.levelBefore \in {ALERT, CAUTION}
        /\ currentDetectionLevel = SAFE
        /\ lastCall'.op = "checkDetection") =>
          lastCall'.maxDetectionLevel <= CAUTION_THRESHOLD]_vars

\* C8: every stateChanged event carries the level held before the transition as
\* previous, the level held after it as current, and the two differ.
C8_EventPayload ==
    \A k \in 1..Len(emitted) :
        /\ emitted[k].previous = emitted[k].before
        /\ emitted[k].current = emitted[k].after
        /\ emitted[k].previous # emitted[k].current

\* C9: removeDetector of an id that is not registered leaves the registry, the
\* audio zones, the obstacles, the level and the alert timer as they were.
C9_RemoveUnknownIsNoOp ==
    [][(lastCall'.op = "removeDetector" /\ ~MapHas(detectors, lastCall'.id)) =>
          /\ detectors' = detectors
          /\ audioZones' = audioZones
          /\ obstacles' = obstacles
          /\ currentDetectionLevel' = currentDetectionLevel
          /\ alertTimer' = alertTimer]_vars

C9_Witness ==
    /\ lastCall.op = "removeDetector"
    /\ ~lastCall.found
    /\ ~MapHas(detectors, lastCall.id)
    /\ Len(detectors) = MaxDetectors
    /\ audioZones # <<>>
    /\ currentDetectionLevel # SAFE

\* C10: for every target and noise level, checkDetection gives the same level,
\* timer, events and multiset of results whatever the order the registry is
\* iterated in.
C10_OrderIndependent ==
    \A target \in TargetPositions, noiseLevel \in NoiseLevels :
        LET a == checkDetection(detectors, audioZones, obstacles,
                     currentDetectionLevel, alertTimer, target, noiseLevel)
        IN  \A dets \in Orders(detectors) \ {detectors} :
                LET b == checkDetection(dets, audioZones, obstacles,
                             currentDetectionLevel, alertTimer, target, noiseLevel)
                IN  /\ a.level = b.level
                    /\ a.timer = b.timer
                    /\ a.events = b.events
                    /\ BagOf(a.results) = BagOf(b.results)

C10_Witness ==
    /\ lastCall.op = "checkDetection"
    /\ Len(results) >= 2
    /\ results[1].detector.detectorType = VISUAL
    /\ results[2].detector.detectorType = VISUAL
    /\ results[1].detectionLevel > results[2].detectionLevel
    /\ results[1].detectionLevel > ALERT_THRESHOLD
    /\ results[2].detectionLevel <= ALERT_THRESHOLD
    /\ emitted # <<>>

\* C11: alertTimer is at least 0 in every reachable state.
C11_TimerNonNegative == alertTimer >= 0

\* C12: an update() that takes the level out of ALERT, the alert timer having
\* run out without a new detection, leaves the level CAUTION.
C12_AlertDecaysToCaution ==
    [][(/\ lastCall'.op = "update"
        /\ currentDetectionLevel = ALERT
        /\ currentDetectionLevel' # ALERT) =>
          currentDetectionLevel' = CAUTION]_vars

\* the audio results among a list of DetectionResults
AudioResults(rs) == SelectSeq(rs, LAMBDA r : r.detector.detectorType = AUDIO)

\* the target is within the zone's radius and at least as loud as its sensitivity
Hears(zone, target, noiseLevel) ==
    /\ (zone.center.x - target.x) * (zone.center.x - target.x)
         + (zone.center.y - target.y) * (zone.center.y - target.y)
           <= zone.radius * zone.radius
    /\ noiseLevel >= zone.sensitivity

\* C13: for every target and noise level, checkDetection returns one audio
\* detection per zone whose center is within radius of the target and whose
\* sensitivity the noise reaches, each of strength min(1, noiseLevel / 10), and
\* none for any other zone.
C13_AudioZoneRule ==
    \A target \in TargetPositions, noiseLevel \in NoiseLevels :
        LET audio == AudioResults(
                         checkDetection(detectors, audioZones, obstacles,
                             currentDetectionLevel, alertTimer, target,
                             noiseLevel).results)
            heard == SelectSeq(audioZones,
                               LAMBDA zone : Hears(zone, target, noiseLevel))
        IN  /\ Len(audio) = Len(heard)
            /\ \A k \in 1..Len(audio) :
                  /\ audio[k].detected
                  /\ audio[k].detector.position = heard[k].center
                  /\ audio[k].detectionLevel =
                         IF noiseLevel >= NOISE_REFERENCE_MAX THEN ONE
                         ELSE (ONE \div NOISE_REFERENCE_MAX) * noiseLevel

C13_Witness ==
    /\ lastCall.op = "checkDetection"
    /\ \E k \in 1..Len(results) :
          /\ results[k].detector.detectorType = AUDIO
          /\ results[k].detectionLevel = ONE
    /\ \E k \in 1..Len(results) : results[k].detector.detectorType = VISUAL

\* C18: a checkDetection made with no detector and no audio zone registered
\* returns no result and leaves the alert timer alone; it leaves the level as
\* it was while alertTimer > 0, and SAFE once alertTimer <= 0.
C18_EmptyRegistry ==
    [][(lastCall'.op = "checkDetection" /\ detectors = <<>> /\ audioZones = <<>>) =>
          /\ results' = <<>>
          /\ alertTimer' = alertTimer
          /\ alertTimer > 0 => currentDetectionLevel' = currentDetectionLevel
          /\ alertTimer <= 0 => currentDetectionLevel' = SAFE]_vars

C18_Witness ==
    /\ lastCall.op = "checkDetection"
    /\ detectors = <<>>
    /\ audioZones = <<>>
    /\ results = <<>>
    /\ alertTimer > 0
    /\ currentDetectionLevel = DISCOVERED

\* an obstacle stands between the detector and the target of a query
Occluded(q) ==
    \E k \in 1..Len(obstacles) :
        LineToRectangle(q.detector.position, q.target, obstacles[k])

\* the square of the distance from the detector to the target of a query
DistanceSquared(q) ==
    (q.detector.position.x - q.target.x) * (q.detector.position.x - q.target.x)
      + (q.detector.position.y - q.target.y) * (q.detector.position.y - q.target.y)

\* the direction from p to q != p in millionths of a degree, in (-180, 180],
\* measured as detector.direction is: 0 along +x, 90 along +y
BearingDegrees(p, q) ==
    LET dx == q.x - p.x
        dy == q.y - p.y
    IN  CASE dy = 0 /\ dx > 0 -> 0
          [] dy = 0 /\ dx < 0 -> 180 * MICRO
          [] dx = 0 /\ dy > 0 -> 90 * MICRO
          [] dx = 0 /\ dy < 0 -> -90 * MICRO
          [] dx = 3 /\ dy = 4 -> 53130102

\* the absolute angular offset of the target from the facing direction of the
\* detector, in millionths of a degree
AngularOffset(q) ==
    Abs(ShortestBetween(q.detector.direction * MICRO,
                        BearingDegrees(q.detector.position, q.target)))

\* C14: when a registered obstacle intersects the segment from the detector to
\* the target, calculateVisibility returns exactly 0.
C14_OcclusionIsBinary ==
    \A k \in 1..Len(query) : Occluded(query[k]) => query[k].visibility = 0

C14_Witness ==
    \E k \in 1..Len(query) :
        /\ Occluded(query[k])
        /\ query[k].visibility = 0
        /\ query[k].target = Pt(3, 0)
        /\ query[k].detector.range = 10
        /\ query[k].detector.direction = 0

\* C15: for fieldOfView < 360 and an unoccluded target at a distance below the
\* range, calculateVisibility returns 0 when the target's angular offset from
\* the facing direction is exactly fieldOfView / 2 and a strength above 0 when
\* the offset is less than fieldOfView / 2.
C15_FieldOfViewBoundary ==
    \A k \in 1..Len(query) :
        LET q == query[k]
        IN  (/\ q.detector.fieldOfView < FULL_CIRCLE
             /\ ~Occluded(q)
             /\ q.target # q.detector.position
             /\ DistanceSquared(q) < q.detector.range * q.detector.range) =>
                /\ 2 * AngularOffset(q) = q.detector.fieldOfView * MICRO
                      => q.visibility = 0
                /\ 2 * AngularOffset(q) < q.detector.fieldOfView * MICRO
                      => q.visibility > 0

\* C16: for a target at the detector's own position, with range > 0 and no
\* occluding obstacle, calculateVisibility returns 1.
C16_ZeroDistanceIsFull ==
    \A k \in 1..Len(query) :
        (/\ query[k].target = query[k].detector.position
         /\ query[k].detector.range > 0
         /\ ~Occluded(query[k])) =>
            query[k].visibility = ONE

\* C17: calculateVisibility returns 0 for a target at distance exactly range,
\* and 1 - distance / range, above 0 and at most 1, for an unoccluded target
\* at a distance below range whose angular offset from the facing direction is
\* within the field of view.
C17_RangeIsExclusive ==
    \A k \in 1..Len(query) :
        LET q == query[k]
            R == q.detector.range
        IN  /\ DistanceSquared(q) = R * R => q.visibility = 0
            /\ (/\ DistanceSquared(q) < R * R
                /\ q.target # q.detector.position
                /\ ~Occluded(q)
                /\ \/ q.detector.fieldOfView >= FULL_CIRCLE
                   \/ 2 * AngularOffset(q) < q.detector.fieldOfView * MICRO) =>
                   /\ q.visibility * R = ONE * (R - Sqrt(DistanceSquared(q)))
                   /\ q.visibility > 0
                   /\ q.visibility <= ONE

\* C19: exactly one of the two drones has isActive, it is the drone
\* getActiveDrone() returns, and a drone that is not active has no acceleration
\* from the cursor keys.
C19_OneActiveDrone ==
    /\ Cardinality({k \in 1..Len(drones) : drones[k].isActive}) = 1
    /\ getActiveDrone(drones, activeDrone).isActive
    /\ \A k \in 1..Len(drones) :
          ~drones[k].isActive => drones[k].acceleration = <<0, 0>>

\* the first drone is active again after two switches: it still carries the
\* doubled drag of its deactivation
C19_Witness ==
    /\ activeDrone = 1
    /\ drones[1].isActive
    /\ drones[1].drag = 2 * dragForce(drones[1].kind)
    /\ ~drones[2].isActive
    /\ drones[2].drag = 2 * dragForce(drones[2].kind)

\* the registered object named id is within INTERACTION_RANGE of the drone and
\* can be interacted with
ValidFor(drone, id) ==
    /\ (terminals[id].x - drone.x) * (terminals[id].x - drone.x)
         + (terminals[id].y - drone.y) * (terminals[id].y - drone.y)
           <= INTERACTION_RANGE * INTERACTION_RANGE
    /\ canInteract(terminals[id], drone.kind)

\* id is strictly nearer to the drone than other
Nearer(drone, id, other) ==
    (terminals[id].x - drone.x) * (terminals[id].x - drone.x)
      + (terminals[id].y - drone.y) * (terminals[id].y - drone.y)
        < (terminals[other].x - drone.x) * (terminals[other].x - drone.x)
            + (terminals[other].y - drone.y) * (terminals[other].y - drone.y)

Registered == {interactables[k] : k \in 1..Len(interactables)}

\* C20: a frame in which E was just pressed calls interact() on at most one
\* object; that object is registered, in range of the active drone and
\* interactable, and no registered object in range and interactable is strictly
\* nearer; when no registered object is in range and interactable, interact() is
\* not called and no object changes.
C20_NearestValidOnly ==
    [][lastFrame'.pressed =>
         LET drone == drones[activeDrone]
             hit == lastFrame'.interacted
         IN  /\ Len(hit) <= 1
             /\ \A k \in 1..Len(hit) :
                   /\ hit[k] \in Registered
                   /\ ValidFor(drone, hit[k])
                   /\ \A id \in Registered :
                         ValidFor(drone, id) => ~Nearer(drone, id, hit[k])
                   /\ \A id \in TerminalIds \ {hit[k]} :
                         terminals'[id] = terminals[id]
             /\ (\A id \in Registered : ~ValidFor(drone, id)) =>
                   /\ hit = <<>>
                   /\ terminals' = terminals]_vars

\* E pressed with two valid objects registered, the farther one first: the
\* nearer one was interacted with, the farther one was not
C20_Witness ==
    /\ lastFrame.pressed
    /\ lastFrame.interacted = <<"t1">>
    /\ interactables = <<"t2", "t1">>
    /\ terminals["t1"].isHacked
    /\ ~terminals["t2"].isHacked
    /\ drones[activeDrone].x = 100
    /\ drones[activeDrone].y = 100

\* the registry without its inactive detectors
ActiveOnly(dets) == SelectSeq(dets, LAMBDA d : d.isActive)

\* C24: for every target and noise level, checkDetection returns the same
\* results and makes the same transition (level, timer, events) as it would
\* with the inactive detectors not registered; no result names an inactive
\* detector.
C24_InactiveDetectorIgnored ==
    \A target \in TargetPositions, noiseLevel \in NoiseLevels :
        LET with == checkDetection(detectors, audioZones, obstacles,
                        currentDetectionLevel, alertTimer, target, noiseLevel)
            without == checkDetection(ActiveOnly(detectors), audioZones, obstacles,
                           currentDetectionLevel, alertTimer, target, noiseLevel)
        IN  /\ with = without
            /\ \A k \in 1..Len(with.results) : with.results[k].detector.isActive

\* an inactive guard1 and an active guard2 are registered; only guard2 reported
C24_Witness ==
    /\ lastCall.op = "checkDetection"
    /\ Len(detectors) = 2
    /\ \E k \in 1..2 : ~detectors[k].isActive /\ detectors[k].id = "guard1"
    /\ Len(results) = 1
    /\ results[1].detector.id = "guard2"
    /\ results[1].detectionLevel = DISCOVERED_THRESHOLD
    /\ currentDetectionLevel = ALERT

\* C29: whenever the level is SAFE, alertTimer is at most 0.
C29_SafeMeansTimerExpired ==
    currentDetectionLevel = SAFE => alertTimer <= 0

\* SAFE again after a timer that was armed has run out
C29_Witness ==
    /\ currentDetectionLevel = SAFE
    /\ alertTimer < 0
    /\ lastCall.op = "update"
    /\ lastCall.levelBefore = ALERT

\* C21: after an update(), a battery at or below 25% of its capacity has
\* precision mode on.
C21_CriticalForcesPrecision ==
    (tsDrone.lastOp = "update" /\ isBatteryCritical(tsDrone)) =>
        tsDrone.isPrecisionMode

\* precision mode was toggled off at a normal level and update() has since
\* left the battery critical but not empty
C21_Witness ==
    /\ tsDrone.lastOp = "update"
    /\ tsDrone.batteryLevel = 20 * MILLI
    /\ tsDrone.isPrecisionMode
    /\ ~tsDrone.isHovering

\* C22: suspicion_level is within [0, 1] after every physics tick, in every
\* state.
C22_SuspicionWithinUnit ==
    enemy.suspicion_level >= 0 /\ enemy.suspicion_level <= ONE

\* C23: a tick on which _update_detection finds suspicion_level at or above
\* detection_threshold ends in ALERT with alert_timer rearmed: alert_duration
\* less the delta that tick's _alert took off.
C23_DetectionRearmsAlert ==
    enemy.detected =>
        /\ enemy.current_state = State.ALERT
        /\ enemy.alert_timer = alert_duration - enemy.delta

\* C25: the 'completed_game' achievement is held only when complete_level has
\* been called for each of the levels 1, 2 and 3.
C25_CompletedGameNeedsAllLevels ==
    "completed_game" \in globalState.achievements =>
        Levels \subseteq globalState.levels_completed

\* C26: is_complete and is_failed are never both true; once either is true
\* neither changes again; and objective_completed and objective_failed are
\* emitted at most once between them.
C26_ObjectiveEndsOnce ==
    /\ [](/\ ~(objective.is_complete /\ objective.is_failed)
          /\ objective.completed_emitted + objective.failed_emitted <= 1)
    /\ [][(objective.is_complete \/ objective.is_failed) =>
            /\ objective'.is_complete = objective.is_complete
            /\ objective'.is_failed = objective.is_failed
            /\ objective'.completed_emitted = objective.completed_emitted
            /\ objective'.failed_emitted = objective.failed_emitted]_vars

\* C26: a failed objective on which _complete was then called
C26_Witness ==
    /\ objective.is_failed /\ ~objective.is_complete
    /\ objective.time_remaining <= 0 /\ objective.time_limit > 0
    /\ objective.failed_emitted = 1 /\ objective.completed_emitted = 0
    /\ objective.lastOp = "complete"

\* C27: a mission does not stay PLAYING past its level's mission time: once
\* the deltas played since start_mission add up to 120, 90 or 60 seconds the
\* tick has ended the game.
C27_TimeLimitEndsMission ==
    game.current_state = GameState.PLAYING =>
        game.elapsed < LevelTime(game.current_level)

\* C30: a perform_action call that returns false leaves battery and
\* action_timer as they were.
C30_FailedActionChangesNothing ==
    [][(gdDrone'.lastOp = "perform_action" /\ ~gdDrone'.returned) =>
         /\ gdDrone'.battery = gdDrone.battery
         /\ gdDrone'.action_timer = gdDrone.action_timer]_vars

\* C28: from the initial or reset state the StealthSystem never leaves it:
\* current_stealth is 1.0, is_hidden is true, hidden was never emitted and
\* get_detection_level() is 0, whatever the enemies do.
C28_StealthNeverDrops ==
    /\ stealth.current_stealth = ONE
    /\ stealth.is_hidden
    /\ stealth.hidden_emitted = 0
    /\ get_detection_level(stealth) = 0

\* C28: a tick on which both registered enemies are out of PATROL and one has
\* the player in plain sight
C28_Witness ==
    /\ stealth.lastOp = "physics_process" /\ stealth.exposed
    /\ stealth.player = "present" /\ stealth.enemies = EnemyIds
    /\ stealth.current_stealth = ONE /\ stealth.is_hidden

====
